---- MODULE Spec2Model ----
(***************************************************************************)
(* A model of the scraping core of Cologne-Rec:                            *)
(*   - src/scraper.py     FragranceScraper (configuration, asyncio,         *)
(*                        rate-limited fetch, per-source coordination,     *)
(*                        flattening, weather extraction)                  *)
(*   - src/scraper/bn.py  Scraper (basenotes: page workers, inline retry,   *)
(*                        review and info extraction, shard files,         *)
(*                        condense)                                        *)
(***************************************************************************)
EXTENDS Integers, Sequences, FiniteSets, TLC

VARIABLES
    \* ---- FragranceScraper.__init__, _fetch_fragrantica_data (src/scraper.py) ----
    config_file,  \* the state of the file at config_path
    ctor_error,   \* the exception FragranceScraper(...) raised
    config,       \* the 'rate_limits'/'fragrantica' entry of self.config
    now,          \* the clock read by the rate limiter (seconds)
    num_calls,    \* @limits(...) decorator: calls counted in the current window
    last_reset,   \* @limits(...) decorator: start of the current window
    data_cache,   \* self.data_cache: a dict url -> FragranceData
    fpc,          \* per task: position inside the fetch coroutine
    furl,         \* per task: the fragrance_url argument
    fresult,      \* per task: value returned / exception raised by the last fetch
    fhit,         \* per task: the last fetch returned at the cache check
    net_calls,    \* per url: number of session.get requests issued
    call_log,     \* times at which the decorated function was let through
    proxy_log,    \* per request issued, in order: the proxy it went through
    budget,       \* fetch invocations the callers still make
    pool,         \* the urls the callers ask for
    \* ---- Scraper (src/scraper/bn.py) ----
    num_jobs,       \* self.num_jobs
    clear_old_data, \* self.clear_old_data
    site_pc,        \* position inside scrape_site
    pst,            \* per page: state of its scrape_page task
    retry_count,    \* per page: retry_count of the innermost scrape_page frame
    todo,           \* per page: reviews of the response still to parse
    scrape_data,    \* per page: scrape_data of the innermost frame
    attempts,       \* per page: session.get(page_url) calls made
    statuses,       \* per page: HTTP statuses the page url answered with
    session,        \* self.session: number of Session objects created after the first
    review_count,   \* self.review_count
    loaded,         \* line 71: the value of self.review_count a thread has read and not yet written back
    clock,          \* time.time()
    data_dir,       \* DATA_DIR: a dict file name -> list of records
    unreadable,     \* the files of DATA_DIR that do not hold well-formed JSON
    saves,          \* per page: save_data calls made
    output,         \* perfume-data.json: whether it was written, and its list of records
    site_error,     \* the exception scrape_site ended with
    \* ---- FragranceScraper.scrape_fragrance_data (src/scraper.py) ----
    sources,      \* the sources argument
    src_idx,      \* position of 'for source in sources'
    all_data,     \* all_data
    src_pc,       \* position inside scrape_fragrance_data
    src_log,      \* what logger.warning / logger.error were called with
    gathered,     \* the lists the per-source scrapers returned, in order
    df,           \* the DataFrame returned: a list of rows
    raw_data,     \* raw_data/: the lists written by _save_raw_data
    \* ---- Scraper.scrape_info, FragranceScraper._extract_weather_suitability ----
    info_soup,    \* the page scrape_info is given
    info_ret,     \* what scrape_info returned or raised
    soup,         \* the page _extract_weather_suitability is given
    suitability   \* what _extract_weather_suitability returned or raised

fetchVars == <<config_file, ctor_error, config, now, num_calls, last_reset,
               data_cache, fpc, furl, fresult, fhit, net_calls, call_log,
               proxy_log, budget, pool>>

bnVars == <<num_jobs, clear_old_data, site_pc, pst, retry_count, todo,
            scrape_data, attempts, statuses, session, review_count, loaded, clock,
            data_dir, unreadable, saves, output, site_error>>

srcVars == <<sources, src_idx, all_data, src_pc, src_log, gathered, df, raw_data>>

extractVars == <<info_soup, info_ret, soup, suitability>>

vars == <<fetchVars, bnVars, srcVars, extractVars>>

notFetch == <<bnVars, srcVars, extractVars>>
notBn == <<fetchVars, srcVars, extractVars>>
notSrc == <<fetchVars, bnVars, extractVars>>
notExtract == <<fetchVars, bnVars, srcVars>>

None == "None"

(***************************************************************************)
(* Bounds of the model.                                                    *)
(***************************************************************************)
NumTasks == 2          \* concurrently running fetch coroutines
MaxFetches == 11       \* fetch invocations of a run with one sequential caller
MaxBurst == 2          \* fetch invocations of a run with NumTasks concurrent callers
MaxTicks == 2          \* clock advances of TickStep seconds

Tasks == 1..NumTasks
Urls == {"u1", "u2"}
Statuses == {200, 429, 404}
\* The statuses session.get of the fetch coroutine is answered with.
FetchStatuses == Statuses \cup {203}

(***************************************************************************)
(* Program constants.                                                      *)
(***************************************************************************)
LimitCalls == 10       \* @limits(calls=10, ...)
LimitPeriod == 60      \* @limits(..., period=60)
DefaultCalls == 10     \* _load_config default: fragrantica calls
DefaultPeriod == 60    \* _load_config default: fragrantica period
TickStep == 30

\* _load_config: the defaults when the file is missing, else whatever the file holds.
DefaultConfig == [calls |-> DefaultCalls, period |-> DefaultPeriod]
FileConfigs == {[calls |-> 2, period |-> 60]}

\* The file at config_path: not there, holding a JSON document, holding
\* something json.load cannot parse, or not open to reading.
ConfigFileStates == {"missing", "valid", "invalid", "unreadable"}

\* self.config of an object whose constructor raised.
NoConfig == [calls |-> 0, period |-> 0]

\* _load_config, lines 51-65: only FileNotFoundError is caught.
LoadConfig(file) ==
    CASE file = "missing" -> {[raised |-> "none", config |-> DefaultConfig]}
      [] file = "valid" -> {[raised |-> "none", config |-> c] : c \in FileConfigs}
      [] file = "invalid" -> {[raised |-> "JSONDecodeError", config |-> NoConfig]}
      [] file = "unreadable" -> {[raised |-> "PermissionError", config |-> NoConfig]}

\* What a call of the fetch coroutine came to.
NoResult == [kind |-> "pending"]
Returned(data) == [kind |-> "returned", data |-> data]
Raised(status) == [kind |-> "raised", status |-> status]
\* An exception raised past the status check: there is no status to blame.
BodyError == Raised(0)

\* d[k] = v on a dict.
DictPut(d, k, v) == [x \in DOMAIN d \cup {k} |-> IF x = k THEN v ELSE d[x]]

\* The FragranceData built from the page at url (lines 94-114).
ExtractData(url) == [name |-> "Sauvage", brand |-> "Dior", source_urls |-> <<url>>]

(***************************************************************************)
(* ratelimit's decorators as applied at lines 79-80.  limits counts the    *)
(* call in a fixed window that restarts once period seconds have passed    *)
(* since last_reset; over the limit it raises, and sleep_and_retry sleeps  *)
(* (time.sleep) for the rest of the window and calls again.                *)
(***************************************************************************)
PeriodRemaining(t, lr) == LimitPeriod - (t - lr)

LimitsPass(t, nc, lr) ==
    LET reset == PeriodRemaining(t, lr) <= 0
        nc1 == (IF reset THEN 0 ELSE nc) + 1
        lr1 == IF reset THEN t ELSE lr
    IN  [raised |-> nc1 > LimitCalls, num_calls |-> nc1, last_reset |-> lr1,
         period_remaining |-> PeriodRemaining(t, lr)]

\* session.get(fragrance_url), line 86: the request names no proxy and goes
\* out directly.
NoProxy == "direct"

\* No coroutine runs: the thread of the event loop is inside time.sleep.
LoopBlocked == \E q \in Tasks : fpc[q] = "sleeping"

\* FragranceScraper(config_path), lines 44-47.  An object is there only when
\* _load_config returned.
FetchInit ==
    /\ config_file \in ConfigFileStates
    /\ \E r \in LoadConfig(config_file) :
          /\ ctor_error = r.raised
          /\ config = r.config
    /\ now = 0
    /\ num_calls = 0
    /\ last_reset = 0
    /\ data_cache = <<>>
    \* Either two callers fetching one url again and again, or NumTasks callers
    \* fetching any of the urls.
    /\ IF ctor_error # "none"
       THEN /\ fpc = [t \in Tasks |-> "absent"]
            /\ budget = 0
            /\ pool = {}
       ELSE \/ /\ fpc = [t \in Tasks |-> IF t <= 2 THEN "idle" ELSE "absent"]
               /\ budget = MaxFetches
               /\ pool = {"u1"}
            \/ /\ fpc = [t \in Tasks |-> "idle"]
               /\ budget = MaxBurst
               /\ pool = Urls
    /\ furl = [t \in Tasks |-> None]
    /\ fresult = [t \in Tasks |-> NoResult]
    /\ fhit = [t \in Tasks |-> FALSE]
    /\ net_calls = [u \in Urls |-> 0]
    /\ call_log = <<>>
    /\ proxy_log = <<>>

\* A caller invokes self._fetch_fragrantica_data(url): the decorators run
\* synchronously and hand back the coroutine.  Over the limit, sleep_and_retry
\* calls time.sleep for the rest of the window.
FetchCall(t, u) ==
    /\ ~LoopBlocked
    /\ fpc[t] \in {"idle", "done", "failed"}
    /\ budget > 0
    /\ u \in pool
    /\ LET first == LimitsPass(now, num_calls, last_reset)
       IN  /\ num_calls' = first.num_calls
           /\ last_reset' = first.last_reset
           /\ IF first.raised
              THEN /\ fpc' = [fpc EXCEPT ![t] = "sleeping"]
                   /\ UNCHANGED call_log
              ELSE /\ fpc' = [fpc EXCEPT ![t] = "created"]
                   /\ call_log' = Append(call_log, now)
    /\ budget' = budget - 1
    /\ furl' = [furl EXCEPT ![t] = u]
    /\ fresult' = [fresult EXCEPT ![t] = NoResult]
    /\ fhit' = [fhit EXCEPT ![t] = FALSE]
    /\ UNCHANGED <<config_file, ctor_error, config, now, data_cache, net_calls,
                   proxy_log, pool>>
    /\ UNCHANGED notFetch

\* time.sleep returns when the window is over, and sleep_and_retry calls the
\* function again.
FetchWake(t) ==
    /\ fpc[t] = "sleeping"
    /\ LET woke == now + PeriodRemaining(now, last_reset)
           second == LimitsPass(woke, num_calls, last_reset)
       IN  /\ now' = woke
           /\ num_calls' = second.num_calls
           /\ last_reset' = second.last_reset
           /\ call_log' = Append(call_log, woke)
           /\ fpc' = [fpc EXCEPT
                       ![t] = IF second.raised THEN "sleeping" ELSE "created"]
    /\ UNCHANGED <<config_file, ctor_error, config, data_cache, furl, fresult,
                   fhit, net_calls, proxy_log, budget, pool>>
    /\ UNCHANGED notFetch

\* Lines 83-86 without the cache check: always issue the request.
FetchBeginNoCacheCheck(t) ==
    /\ ~LoopBlocked
    /\ fpc[t] = "created"
    /\ net_calls' = [net_calls EXCEPT ![furl[t]] = @ + 1]
    /\ proxy_log' = Append(proxy_log, NoProxy)
    /\ fpc' = [fpc EXCEPT ![t] = "requesting"]
    /\ UNCHANGED <<config_file, ctor_error, config, now, num_calls, last_reset,
                   data_cache, furl, fresult, fhit, call_log, budget, pool>>
    /\ UNCHANGED notFetch

\* Lines 83-86: the coroutine starts; a cached url returns at once, any other
\* issues session.get and suspends.
FetchBegin(t) ==
    /\ ~LoopBlocked
    /\ fpc[t] = "created"
    /\ IF furl[t] \in DOMAIN data_cache
       THEN /\ fresult' = [fresult EXCEPT ![t] = Returned(data_cache[furl[t]])]
            /\ fhit' = [fhit EXCEPT ![t] = TRUE]
            /\ fpc' = [fpc EXCEPT ![t] = "done"]
            /\ UNCHANGED <<net_calls, proxy_log>>
       ELSE /\ net_calls' = [net_calls EXCEPT ![furl[t]] = @ + 1]
            /\ proxy_log' = Append(proxy_log, NoProxy)
            /\ fpc' = [fpc EXCEPT ![t] = "requesting"]
            /\ UNCHANGED <<fresult, fhit>>
    /\ UNCHANGED <<config_file, ctor_error, config, now, num_calls, last_reset,
                   data_cache, furl, call_log, budget, pool>>
    /\ UNCHANGED notFetch

\* Lines 86-90 with the page put in the cache before its status is looked at.
FetchStatusCachingAll(t, status) ==
    /\ ~LoopBlocked
    /\ fpc[t] = "requesting"
    /\ data_cache' = DictPut(data_cache, furl[t], ExtractData(furl[t]))
    /\ IF status # 200
       THEN /\ fpc' = [fpc EXCEPT ![t] = "failed"]
            /\ fresult' = [fresult EXCEPT ![t] = Raised(status)]
       ELSE /\ fpc' = [fpc EXCEPT ![t] = "reading"]
            /\ UNCHANGED fresult
    /\ UNCHANGED <<config_file, ctor_error, config, now, num_calls, last_reset,
                   furl, fhit, net_calls, call_log, proxy_log, budget, pool>>
    /\ UNCHANGED notFetch

\* Lines 86-90: the response arrives; any status but 200 raises.
FetchStatus(t, status) ==
    /\ ~LoopBlocked
    /\ fpc[t] = "requesting"
    /\ IF status # 200
       THEN /\ fpc' = [fpc EXCEPT ![t] = "failed"]
            /\ fresult' = [fresult EXCEPT ![t] = Raised(status)]
       ELSE /\ fpc' = [fpc EXCEPT ![t] = "reading"]
            /\ UNCHANGED fresult
    /\ UNCHANGED <<config_file, ctor_error, config, now, num_calls, last_reset,
                   data_cache, furl, fhit, net_calls, call_log, proxy_log,
                   budget, pool>>
    /\ UNCHANGED notFetch

\* Lines 90-117: the body is read and parsed, the record cached and returned;
\* or response.text() or the extraction raises, and the coroutine ends there.
FetchBody(t, ok) ==
    /\ ~LoopBlocked
    /\ fpc[t] = "reading"
    /\ IF ok
       THEN /\ data_cache' = DictPut(data_cache, furl[t], ExtractData(furl[t]))
            /\ fresult' = [fresult EXCEPT ![t] = Returned(ExtractData(furl[t]))]
            /\ fpc' = [fpc EXCEPT ![t] = "done"]
       ELSE /\ fresult' = [fresult EXCEPT ![t] = BodyError]
            /\ fpc' = [fpc EXCEPT ![t] = "failed"]
            /\ UNCHANGED data_cache
    /\ UNCHANGED <<config_file, ctor_error, config, now, num_calls, last_reset,
                   furl, fhit, net_calls, call_log, proxy_log, budget, pool>>
    /\ UNCHANGED notFetch

\* Time passes.  The time spent inside time.sleep is added when it returns.
Tick ==
    /\ ~LoopBlocked
    /\ now + TickStep <= MaxTicks * TickStep
    /\ now' = now + TickStep
    /\ UNCHANGED <<config_file, ctor_error, config, num_calls, last_reset,
                   data_cache, fpc, furl, fresult, fhit, net_calls, call_log,
                   proxy_log, budget, pool>>
    /\ UNCHANGED notFetch

NextFetch ==
    \/ \E t \in Tasks, u \in Urls : FetchCall(t, u)
    \/ \E t \in Tasks : FetchWake(t)
    \/ \E t \in Tasks : FetchBegin(t)
    \/ \E t \in Tasks, s \in FetchStatuses : FetchStatus(t, s)
    \/ \E t \in Tasks, ok \in BOOLEAN : FetchBody(t, ok)
    \/ Tick

(***************************************************************************)
(* Scraper of src/scraper/bn.py.                                           *)
(***************************************************************************)
NumPages == 2          \* pages_scraped = (1, NumPages)
ReviewsPerPage == 1    \* 'reviewblurb' blocks on a review page
MaxJobs == 2           \* largest num_jobs tried
MaxClock == 2          \* distinct values time.time() takes during a run

RetryLimit == 3        \* 'if retry_count <= 3'

\* range(self.pages_scraped[0], self.pages_scraped[1] + 1)
Pages == 1..NumPages

\* What session.get(page_url) comes to: a network-level exception, or a response.
GetOutcomes ==
    {[raised |-> TRUE, status |-> 0]}
        \cup {[raised |-> FALSE, status |-> st] : st \in Statuses}

\* review_data of the i-th review block of page p (lines 83-91).
ReviewData(p, i) == [perfume |-> "Sauvage", maker |-> "Dior", review |-> <<p, i>>]

\* A shard left in DATA_DIR by an earlier run.
OldShard == <<[perfume |-> "Habit Rouge", maker |-> "Guerlain", review |-> <<0, 1>>]>>

\* No value of self.review_count is held by the thread.
NotLoaded == -1

NoOutput == [written |-> FALSE, rows |-> <<>>]

\* perfume-data.json as an earlier run's condense_data left it.
PrevOutput == [written |-> TRUE, rows |-> OldShard]

RECURSIVE ConcatAll(_)
ConcatAll(ss) == IF ss = <<>> THEN <<>> ELSE Head(ss) \o ConcatAll(Tail(ss))

\* The orders in which glob.glob may list the files of a directory.
GlobOrders(dir) ==
    {o \in [1..Cardinality(DOMAIN dir) -> DOMAIN dir] :
        \A i, j \in DOMAIN o : i # j => o[i] # o[j]}

\* condense_data, lines 154-158: the files' lists concatenated in glob's order.
CondensedRows(dir, order) == ConcatAll([i \in DOMAIN order |-> dir[order[i]]])

BnInit ==
    /\ num_jobs \in 0..MaxJobs
    /\ clear_old_data \in BOOLEAN
    /\ site_pc = "start"
    /\ pst = [p \in Pages |-> "pending"]
    /\ retry_count = [p \in Pages |-> 0]
    /\ todo = [p \in Pages |-> 0]
    /\ scrape_data = [p \in Pages |-> <<>>]
    /\ attempts = [p \in Pages |-> 0]
    /\ statuses = [p \in Pages |-> <<>>]
    /\ session = 0
    /\ review_count = 0
    /\ loaded = [p \in Pages |-> NotLoaded]
    /\ clock = 1
    /\ data_dir \in {<<>>, 0 :> OldShard}
    /\ unreadable \in SUBSET DOMAIN data_dir
    /\ saves = [p \in Pages |-> 0]
    /\ output = PrevOutput
    /\ site_error = "none"

\* The scrape_page calls under way.
InFlight == {q \in Pages : pst[q] \in {"get", "parse"}}

\* The threads that run scrape_page: the workers of Pool(num_jobs) when
\* num_jobs > 1 (lines 32-34), else the caller of scrape_site alone.
Workers == IF num_jobs > 1 THEN num_jobs ELSE 1

\* An exception leaves scrape_page (through every enclosing except block).  The
\* sequential loop of scrape_site lets it through at once; Pool.map keeps the
\* first one and raises it when all tasks are done.
RaiseFrom(p, exc) ==
    /\ pst' = [pst EXCEPT ![p] = "raised"]
    /\ site_error' = IF site_error = "none" THEN exc ELSE site_error
    /\ site_pc' = IF num_jobs > 1 THEN site_pc ELSE "raised"

\* Lines 39-40 with clear_all_data in the place of clear_data_dir.
ScrapeSiteStartClearsAll ==
    /\ site_pc = "start"
    /\ data_dir' = IF clear_old_data THEN <<>> ELSE data_dir
    /\ unreadable' = IF clear_old_data THEN {} ELSE unreadable
    /\ output' = IF clear_old_data THEN NoOutput ELSE output
    /\ site_pc' = "scraping"
    /\ UNCHANGED <<num_jobs, clear_old_data, pst, retry_count, todo, scrape_data,
                   attempts, statuses, session, review_count, loaded, clock, saves,
                   site_error>>
    /\ UNCHANGED notBn

\* scrape_site, lines 39-40.
ScrapeSiteStart ==
    /\ site_pc = "start"
    /\ data_dir' = IF clear_old_data THEN <<>> ELSE data_dir
    /\ unreadable' = IF clear_old_data THEN {} ELSE unreadable
    /\ site_pc' = "scraping"
    /\ UNCHANGED <<num_jobs, clear_old_data, pst, retry_count, todo, scrape_data,
                   attempts, statuses, session, review_count, loaded, clock, saves,
                   output, site_error>>
    /\ UNCHANGED notBn

\* Lines 41-48 with no limit on the calls under way: every page is started at once.
ScrapePageEnterUnbounded(p) ==
    /\ site_pc = "scraping"
    /\ pst[p] = "pending"
    /\ pst' = [pst EXCEPT ![p] = "get"]
    /\ UNCHANGED <<num_jobs, clear_old_data, site_pc, retry_count, todo,
                   scrape_data, attempts, statuses, session, review_count, loaded,
                   clock, data_dir, unreadable, saves, output, site_error>>
    /\ UNCHANGED notBn

\* scrape_site, lines 41-48: the next page is handed to scrape_page, by the loop
\* when the page before it returned, or by a free worker of the pool.
ScrapePageEnter(p) ==
    /\ site_pc = "scraping"
    /\ pst[p] = "pending"
    /\ \A q \in Pages : q < p => pst[q] # "pending"
    /\ Cardinality(InFlight) < Workers
    /\ pst' = [pst EXCEPT ![p] = "get"]
    /\ UNCHANGED <<num_jobs, clear_old_data, site_pc, retry_count, todo,
                   scrape_data, attempts, statuses, session, review_count, loaded,
                   clock, data_dir, unreadable, saves, output, site_error>>
    /\ UNCHANGED notBn

\* Lines 53-65 with the retry taken however many attempts have failed.
ScrapePageGetRetryAlways(p, o) ==
    /\ pst[p] = "get"
    /\ attempts' = [attempts EXCEPT ![p] = @ + 1]
    /\ IF o.raised
       THEN /\ session' = session + 1
            /\ scrape_data' = [scrape_data EXCEPT ![p] = <<>>]
            /\ UNCHANGED <<retry_count, pst, site_error, site_pc, statuses, todo>>
       ELSE /\ statuses' = [statuses EXCEPT ![p] = Append(@, o.status)]
            /\ todo' = [todo EXCEPT ![p] = IF o.status = 200 THEN ReviewsPerPage ELSE 0]
            /\ pst' = [pst EXCEPT ![p] = "parse"]
            /\ UNCHANGED <<retry_count, session, scrape_data, site_error, site_pc>>
    /\ UNCHANGED <<num_jobs, clear_old_data, review_count, loaded, clock, data_dir,
                   unreadable, saves, output>>
    /\ UNCHANGED notBn

\* scrape_page, lines 53-65: the request of the innermost frame.
ScrapePageGet(p, o) ==
    /\ pst[p] = "get"
    /\ attempts' = [attempts EXCEPT ![p] = @ + 1]
    /\ IF o.raised
       THEN IF retry_count[p] + 1 <= RetryLimit
            THEN /\ retry_count' = [retry_count EXCEPT ![p] = @ + 1]
                 /\ session' = session + 1
                 /\ scrape_data' = [scrape_data EXCEPT ![p] = <<>>]
                 /\ UNCHANGED <<pst, site_error, site_pc, statuses, todo>>
            ELSE /\ RaiseFrom(p, "network")
                 /\ UNCHANGED <<retry_count, session, scrape_data, statuses, todo>>
       ELSE /\ statuses' = [statuses EXCEPT ![p] = Append(@, o.status)]
            /\ todo' = [todo EXCEPT ![p] = IF o.status = 200 THEN ReviewsPerPage ELSE 0]
            /\ pst' = [pst EXCEPT ![p] = "parse"]
            /\ UNCHANGED <<retry_count, session, scrape_data, site_error, site_pc>>
    /\ UNCHANGED <<num_jobs, clear_old_data, review_count, loaded, clock, data_dir,
                   unreadable, saves, output>>
    /\ UNCHANGED notBn

\* scrape_page, line 71, first half: the thread reads self.review_count.
ScrapePageCount(p) ==
    /\ pst[p] = "parse"
    /\ todo[p] > 0
    /\ loaded[p] = NotLoaded
    /\ loaded' = [loaded EXCEPT ![p] = review_count]
    /\ UNCHANGED <<num_jobs, clear_old_data, site_pc, pst, retry_count, todo,
                   scrape_data, attempts, statuses, session, review_count,
                   clock, data_dir, unreadable, saves, output, site_error>>
    /\ UNCHANGED notBn

\* scrape_page, lines 66-94: one review block, with 'self.review_count += 1'
\* writing back count + 1.  Nothing is caught here: the block's own parsing,
\* scrape_info's request and scrape_info's indexing (ScrapeInfo below) may
\* each raise.
ReviewBlock(p, ok, count) ==
    /\ pst[p] = "parse"
    /\ todo[p] > 0
    /\ review_count' = count + 1
    /\ IF ok
       THEN /\ scrape_data' = [scrape_data EXCEPT
                   ![p] = Append(@, ReviewData(p, ReviewsPerPage - todo[p] + 1))]
            /\ todo' = [todo EXCEPT ![p] = @ - 1]
            /\ UNCHANGED <<pst, site_error, site_pc>>
       ELSE /\ RaiseFrom(p, "info")
            /\ UNCHANGED <<scrape_data, todo>>
    /\ UNCHANGED <<num_jobs, clear_old_data, retry_count, attempts, statuses,
                   session, clock, data_dir, unreadable, saves, output>>
    /\ UNCHANGED notBn

\* One review block when no other thread runs between the read and the write
\* of line 71.
ScrapePageReview(p, ok) ==
    /\ loaded[p] = NotLoaded
    /\ ReviewBlock(p, ok, review_count)
    /\ UNCHANGED loaded

\* Line 71, second half, and the rest of the block: the thread writes back
\* the value it read plus one, whatever the other threads wrote meanwhile.
ScrapePageStore(p, ok) ==
    /\ loaded[p] # NotLoaded
    /\ ReviewBlock(p, ok, loaded[p])
    /\ loaded' = [loaded EXCEPT ![p] = NotLoaded]

\* scrape_page, line 95, and save_data: the shard is written under the name
\* time.time() gives and the frame returns.  A caller frame is inside its
\* except block (line 60); it goes on to line 64, where its own 'response' was
\* never bound, and raises UnboundLocalError.
ScrapePageSave(p, tm) ==
    /\ pst[p] = "parse"
    /\ todo[p] = 0
    /\ clock' = tm
    /\ data_dir' = DictPut(data_dir, tm, scrape_data[p])
    /\ unreadable' = unreadable \ {tm}
    /\ saves' = [saves EXCEPT ![p] = @ + 1]
    /\ IF retry_count[p] > 0
       THEN RaiseFrom(p, "UnboundLocalError")
       ELSE /\ pst' = [pst EXCEPT ![p] = "returned"]
            /\ UNCHANGED <<site_error, site_pc>>
    /\ UNCHANGED <<num_jobs, clear_old_data, retry_count, todo, scrape_data,
                   attempts, statuses, session, review_count, loaded, output>>
    /\ UNCHANGED notBn

\* scrape_site, lines 43-49: the loop, or Pool.map, is over.
ScrapeSiteJoin ==
    /\ site_pc = "scraping"
    /\ \A p \in Pages : pst[p] \in {"returned", "raised"}
    /\ site_pc' = IF \E p \in Pages : pst[p] = "raised" THEN "raised" ELSE "condense"
    /\ UNCHANGED <<num_jobs, clear_old_data, pst, retry_count, todo, scrape_data,
                   attempts, statuses, session, review_count, loaded, clock, data_dir,
                   unreadable, saves, output, site_error>>
    /\ UNCHANGED notBn

\* condense_data, lines 152-162: every file glob lists is loaded, and only
\* then is perfume-data.json written; json.load raises on a file it cannot
\* parse, and nothing catches it.
CondenseData(order) ==
    /\ site_pc = "condense"
    /\ IF \E i \in DOMAIN order : order[i] \in unreadable
       THEN /\ site_pc' = "raised"
            /\ site_error' = "JSONDecodeError"
            /\ UNCHANGED output
       ELSE /\ output' = [written |-> TRUE, rows |-> CondensedRows(data_dir, order)]
            /\ site_pc' = "finished"
            /\ UNCHANGED site_error
    /\ UNCHANGED <<num_jobs, clear_old_data, pst, retry_count, todo, scrape_data,
                   attempts, statuses, session, review_count, loaded, clock, data_dir,
                   unreadable, saves>>
    /\ UNCHANGED notBn

\* The values time.time() may give when it is read next: the clock does not go
\* back, and two readings may be equal.
Times == clock..MaxClock

NextBn ==
    \/ ScrapeSiteStart
    \/ \E p \in Pages : ScrapePageEnter(p)
    \/ \E p \in Pages, o \in GetOutcomes : ScrapePageGet(p, o)
    \/ \E p \in Pages, ok \in BOOLEAN : ScrapePageReview(p, ok)
    \/ \E p \in Pages, tm \in Times : ScrapePageSave(p, tm)
    \/ ScrapeSiteJoin
    \/ \E o \in GlobOrders(data_dir) : CondenseData(o)

\* The same run with the two halves of line 71 as steps of their own, so that
\* the threads of the pool interleave between them.
NextBnRace ==
    \/ ScrapeSiteStart
    \/ \E p \in Pages : ScrapePageEnter(p)
    \/ \E p \in Pages, o \in GetOutcomes : ScrapePageGet(p, o)
    \/ \E p \in Pages : ScrapePageCount(p)
    \/ \E p \in Pages, ok \in BOOLEAN : ScrapePageStore(p, ok)
    \/ \E p \in Pages, tm \in Times : ScrapePageSave(p, tm)
    \/ ScrapeSiteJoin
    \/ \E o \in GlobOrders(data_dir) : CondenseData(o)

\* The fetch coroutine not in use.
FetchIdle ==
    /\ config_file = "missing"
    /\ ctor_error = "none"
    /\ config = DefaultConfig
    /\ now = 0
    /\ num_calls = 0
    /\ last_reset = 0
    /\ data_cache = <<>>
    /\ fpc = [t \in Tasks |-> "absent"]
    /\ furl = [t \in Tasks |-> None]
    /\ fresult = [t \in Tasks |-> NoResult]
    /\ fhit = [t \in Tasks |-> FALSE]
    /\ net_calls = [u \in Urls |-> 0]
    /\ call_log = <<>>
    /\ proxy_log = <<>>
    /\ budget = 0
    /\ pool = {}

\* No basenotes run.
BnIdle ==
    /\ num_jobs = 1
    /\ clear_old_data = TRUE
    /\ site_pc = "absent"
    /\ pst = [p \in Pages |-> "pending"]
    /\ retry_count = [p \in Pages |-> 0]
    /\ todo = [p \in Pages |-> 0]
    /\ scrape_data = [p \in Pages |-> <<>>]
    /\ attempts = [p \in Pages |-> 0]
    /\ statuses = [p \in Pages |-> <<>>]
    /\ session = 0
    /\ review_count = 0
    /\ loaded = [p \in Pages |-> NotLoaded]
    /\ clock = 1
    /\ data_dir = <<>>
    /\ unreadable = {}
    /\ saves = [p \in Pages |-> 0]
    /\ output = NoOutput
    /\ site_error = "none"

(***************************************************************************)
(* FragranceScraper.scrape_fragrance_data and _process_scraped_data of     *)
(* src/scraper.py.                                                         *)
(***************************************************************************)
MaxSources == 3        \* longest sources list tried

Null == "None"

SourceNames == {"fragrantica", "basenotes", "parfumo"}

\* FragranceData records the per-source scrapers may come back with.
DiorSauvageF ==
    [name |-> "Sauvage", brand |-> "Dior", release_year |-> "2015",
     longevity |-> Null, sillage |-> Null, seasons |-> <<"summer", "spring">>,
     occasions |-> <<>>, source_urls |-> <<"u1">>]
DiorSauvageB ==
    [name |-> "sauvage", brand |-> "DIOR", release_year |-> Null,
     longevity |-> "8", sillage |-> "7", seasons |-> <<>>,
     occasions |-> <<"evening">>, source_urls |-> <<"u2">>]
VersaceEros ==
    [name |-> "Eros", brand |-> "Versace", release_year |-> "2012",
     longevity |-> "9", sillage |-> Null, seasons |-> <<"winter">>,
     occasions |-> <<>>, source_urls |-> <<"u3">>]

\* self._scrape_fragrantica / self._scrape_basenotes: what a call may return.
SourceData(source) ==
    IF source = "fragrantica" THEN {<<>>, <<DiorSauvageF>>, <<VersaceEros, DiorSauvageF>>}
    ELSE IF source = "basenotes" THEN {<<>>, <<DiorSauvageB>>}
    ELSE {}

\* ... or it raises.
SourceOutcomes(source) ==
    {[raised |-> TRUE, data |-> <<>>]}
        \cup {[raised |-> FALSE, data |-> d] : d \in SourceData(source)}

\* ','.join(items)
RECURSIVE Join(_)
Join(items) ==
    IF Len(items) <= 1 THEN items
    ELSE <<Head(items), ",">> \o Join(Tail(items))

\* lines 215-224: the flat row of one FragranceData.
FlatData(frag) ==
    [name |-> frag.name, brand |-> frag.brand, release_year |-> frag.release_year,
     longevity |-> frag.longevity, sillage |-> frag.sillage,
     seasons |-> Join(frag.seasons), occasions |-> Join(frag.occasions),
     sources |-> Join(frag.source_urls)]

\* _process_scraped_data: one row per record of data, in order, with the
\* metadata columns added (lines 247-251).
ProcessScrapedData(data) ==
    [i \in DOMAIN data |->
        FlatData(data[i]) @@ [scrape_date |-> "now", data_version |-> "1.0"]]

SourceLists ==
    UNION {[1..n -> SourceNames] : n \in 0..MaxSources}

SrcInit ==
    /\ sources \in SourceLists
    /\ src_idx = 1
    /\ all_data = <<>>
    /\ src_pc = "loop"
    /\ src_log = <<>>
    /\ gathered = <<>>
    /\ df = <<>>
    /\ raw_data = <<>>

\* Lines 186-199 with the try/except left out: a raising source ends the run.
ScrapeSourceNoIsolation(o) ==
    /\ src_pc = "loop"
    /\ src_idx <= Len(sources)
    /\ IF sources[src_idx] \in {"fragrantica", "basenotes"}
       THEN IF o.raised
            THEN /\ src_pc' = "raised"
                 /\ UNCHANGED <<all_data, gathered, src_log, src_idx>>
            ELSE /\ all_data' = all_data \o o.data
                 /\ gathered' = Append(gathered, o.data)
                 /\ src_idx' = src_idx + 1
                 /\ UNCHANGED <<src_log, src_pc>>
       ELSE /\ src_log' = Append(src_log, <<"warning", sources[src_idx]>>)
            /\ src_idx' = src_idx + 1
            /\ UNCHANGED <<all_data, gathered, src_pc>>
    /\ UNCHANGED <<sources, df, raw_data>>
    /\ UNCHANGED notSrc

\* Lines 186-199: one pass of the loop over sources.
ScrapeSource(o) ==
    /\ src_pc = "loop"
    /\ src_idx <= Len(sources)
    /\ IF sources[src_idx] \in {"fragrantica", "basenotes"}
       THEN IF o.raised
            THEN /\ src_log' = Append(src_log, <<"error", sources[src_idx]>>)
                 /\ UNCHANGED <<all_data, gathered>>
            ELSE /\ all_data' = all_data \o o.data
                 /\ gathered' = Append(gathered, o.data)
                 /\ UNCHANGED src_log
       ELSE /\ src_log' = Append(src_log, <<"warning", sources[src_idx]>>)
            /\ UNCHANGED <<all_data, gathered>>
    /\ src_idx' = src_idx + 1
    /\ UNCHANGED <<sources, src_pc, df, raw_data>>
    /\ UNCHANGED notSrc

\* Lines 201-207: the loop is over; the data is processed, saved and returned.
ScrapeFinish ==
    /\ src_pc = "loop"
    /\ src_idx > Len(sources)
    /\ df' = ProcessScrapedData(all_data)
    /\ raw_data' = Append(raw_data, all_data)
    /\ src_pc' = "returned"
    /\ UNCHANGED <<sources, src_idx, all_data, src_log, gathered>>
    /\ UNCHANGED notSrc

NextSrc ==
    \/ \E o \in SourceOutcomes(IF src_idx <= Len(sources) THEN sources[src_idx] ELSE "") :
           ScrapeSource(o)
    \/ ScrapeFinish

\* scrape_fragrance_data not called.
SrcIdle ==
    /\ sources = <<>>
    /\ src_idx = 1
    /\ all_data = <<>>
    /\ src_pc = "absent"
    /\ src_log = <<>>
    /\ gathered = <<>>
    /\ df = <<>>
    /\ raw_data = <<>>

(***************************************************************************)
(* The extraction functions: Scraper.scrape_info of src/scraper/bn.py and   *)
(* FragranceScraper._extract_weather_suitability of src/scraper.py, applied *)
(* to pages that lack some of their sections.                              *)
(***************************************************************************)
MaxCells == 4          \* most '<td>' cells of the 'peoplelist' block tried

\* A perfume's page as scrape_info sees it: whether the 'peoplelist' block is
\* there, whether it holds the rating's meta tag, and how many '<td>' it holds.
InfoSoups ==
    {[peoplelist |-> FALSE, meta |-> FALSE, cells |-> 0]}
        \cup {[peoplelist |-> TRUE, meta |-> m, cells |-> c] :
                  m \in BOOLEAN, c \in 0..MaxCells}

\* The text between the (i-1)-th and the i-th '<td>' of the block.
Piece(i) ==
    CASE i = 1 -> "<div class=peoplelist>"
      [] i = 2 -> "Year of Launch2015"
      [] i = 3 -> "Gender</td>Male"
      [] i = 4 -> "Availability</td>In Production"
      [] OTHER -> "</td></tr></table></div>"

\* str(info[0:]).split('<td>'), line 106.
SplitCells(page) == [i \in 1..(page.cells + 1) |-> Piece(i)]

\* remove_brackets, lines 112-125: the tags are taken out of every element but
\* the last, which stays None.
RemoveBrackets(input_list) ==
    [j \in DOMAIN input_list |->
        IF j < Len(input_list) THEN input_list[j] ELSE None]

\* input_list[k][n:] of lines 108-110, k counted from 0.
SliceOf(input_list, k) ==
    IF k + 1 > Len(input_list) THEN [raised |-> "IndexError", value |-> None]
    ELSE IF input_list[k + 1] = None THEN [raised |-> "TypeError", value |-> None]
    ELSE [raised |-> "none", value |-> input_list[k + 1]]

InfoRaised(exc) == [kind |-> "raised", exc |-> exc]

\* scrape_info, lines 100-110, on the page the request returned.
ScrapeInfo(page) ==
    LET info_parse == RemoveBrackets(SplitCells(page))
        rating == IF page.meta THEN "4" ELSE "nan"
        year == SliceOf(info_parse, 1)
        gender == SliceOf(info_parse, 2)
        availability == SliceOf(info_parse, 3)
    IN  IF ~page.peoplelist THEN InfoRaised("IndexError")
        ELSE IF year.raised # "none" THEN InfoRaised(year.raised)
        ELSE IF gender.raised # "none" THEN InfoRaised(gender.raised)
        ELSE IF availability.raised # "none" THEN InfoRaised(availability.raised)
        ELSE Returned([rating |-> rating, year |-> year.value,
                       gender |-> gender.value, availability |-> availability.value])

\* weather_map, lines 142-146.
WeatherMap ==
    [sunny |-> <<"warm", "hot", "summer">>,
     rainy |-> <<"wet", "rain", "spring">>,
     cold |-> <<"winter", "cold", "cool">>]

WeatherTerms ==
    {"warm", "hot", "summer", "wet", "rain", "spring", "winter", "cold", "cool"}

\* A fragrance page as _extract_weather_suitability sees it: whether the
\* 'weather-ratings' block is there, and per term whether its element is
\* absent, carries a number, or carries text float() rejects.
Soups ==
    {[weather_div |-> FALSE, terms |-> [t \in WeatherTerms |-> "absent"]]}
        \cup {[weather_div |-> TRUE,
                terms |-> [t \in WeatherTerms |->
                              IF t \in DOMAIN f THEN f[t] ELSE "absent"]] :
                  f \in [{"warm", "hot", "summer"} -> {"absent", "number", "text"}]}

\* The number every numeric data-rating of the pages tried holds.
RatingValue == 3

RECURSIVE SumOf(_)
SumOf(ratings) == IF ratings = <<>> THEN 0 ELSE Head(ratings) + SumOf(Tail(ratings))

\* Lines 152-158: the ratings of one weather's terms, unparsable ones skipped.
RECURSIVE TermRatings(_, _)
TermRatings(page, terms) ==
    IF terms = <<>> THEN <<>>
    ELSE (IF page.terms[Head(terms)] = "number" THEN <<RatingValue>> ELSE <<>>)
             \o TermRatings(page, Tail(terms))

\* _extract_weather_suitability, lines 148-166.
ExtractWeatherSuitability(page) ==
    IF page.weather_div
    THEN [w \in DOMAIN WeatherMap |->
             LET ratings == TermRatings(page, WeatherMap[w])
             IN  IF ratings # <<>> THEN SumOf(ratings) \div Len(ratings) ELSE 0]
    ELSE <<>>

ExtractInit ==
    /\ info_soup \in InfoSoups
    /\ info_ret = NoResult
    /\ soup \in Soups
    /\ suitability = NoResult

\* scrape_info(review_url) is called and the page arrives.
ScrapeInfoCall ==
    /\ info_ret = NoResult
    /\ info_ret' = ScrapeInfo(info_soup)
    /\ UNCHANGED <<info_soup, soup, suitability>>
    /\ UNCHANGED notExtract

\* _extract_weather_suitability(soup) is called.
ExtractWeatherCall ==
    /\ suitability = NoResult
    /\ suitability' = Returned(ExtractWeatherSuitability(soup))
    /\ UNCHANGED <<info_soup, info_ret, soup>>
    /\ UNCHANGED notExtract

NextExtract ==
    \/ ScrapeInfoCall
    \/ ExtractWeatherCall

\* No extraction function under test.
ExtractIdle ==
    /\ info_soup = [peoplelist |-> FALSE, meta |-> FALSE, cells |-> 0]
    /\ info_ret = NoResult
    /\ soup = [weather_div |-> FALSE, terms |-> [t \in WeatherTerms |-> "absent"]]
    /\ suitability = NoResult

InitFetch == FetchInit /\ BnIdle /\ SrcIdle /\ ExtractIdle
SpecFetch == InitFetch /\ [][NextFetch]_vars

InitBn == BnInit /\ FetchIdle /\ SrcIdle /\ ExtractIdle
SpecBn == InitBn /\ [][NextBn]_vars
SpecBnRace == InitBn /\ [][NextBnRace]_vars

InitSrc == SrcInit /\ FetchIdle /\ BnIdle /\ ExtractIdle
SpecSrc == InitSrc /\ [][NextSrc]_vars

InitExtract == ExtractInit /\ FetchIdle /\ BnIdle /\ SrcIdle
SpecExtract == InitExtract /\ [][NextExtract]_vars
(***************************************************************************)
(* Properties.                                                             *)
(***************************************************************************)

\* The fetch calls let through in the interval [from, from + length).
CallsWithin(from, length) ==
    Cardinality({i \in DOMAIN call_log :
                    call_log[i] >= from /\ call_log[i] < from + length})

\* C1: in any interval of length period, the number of fetch calls started is
\* at most max_calls, period and max_calls being the configured values.
C1_RateLimitPerConfig ==
    \A i \in DOMAIN call_log : CallsWithin(call_log[i], config.period) <= config.calls

\* Every attempt for page p raised, and the retries ran out.
Exhausted(p) == pst[p] = "raised" /\ statuses[p] = <<>> /\ attempts[p] > 0

\* The shard files holding a record that comes from page p.
ShardRecordsOf(p) ==
    {f \in DOMAIN data_dir :
        \E i \in DOMAIN data_dir[f] : data_dir[f][i].review[1] = p}

\* C2: a page's request is attempted at most max_tries (3) times in all, and a
\* page that runs out of attempts puts no record in any shard.
C2_AttemptsAtMostMaxTries ==
    \A p \in Pages :
        /\ attempts[p] <= RetryLimit
        /\ Exhausted(p) => ShardRecordsOf(p) = {}

\* C3: within one run at most one network request is issued per url.
C3_OneRequestPerUrl == \A u \in Urls : net_calls[u] <= 1

\* C4: a fetch that finds its url in data_cache returns the cached record and
\* issues no request.
C4_CacheHitNoNetworkCall ==
    [][\A t \in Tasks :
          (fpc[t] = "created" /\ furl[t] \in DOMAIN data_cache /\ fpc'[t] # "created")
              => /\ net_calls' = net_calls
                 /\ fpc'[t] = "done"
                 /\ fresult'[t] = Returned(data_cache[furl[t]])]_vars

\* C4's case: a fetch was served from the cache.
C4_Witness ==
    \E t \in Tasks :
        /\ fpc[t] = "done"
        /\ fhit[t]
        /\ furl[t] \in DOMAIN data_cache
        /\ fresult[t] = Returned(data_cache[furl[t]])

\* C9: a page whose every attempt failed ends as a recorded failure, and the
\* run goes on: it is not aborted, and once it is over the output was condensed
\* from the shards of the pages that succeeded.
C9_ExhaustedPageDoesNotStopRun ==
    \A p \in Pages :
        Exhausted(p) =>
            /\ site_pc # "raised"
            /\ site_pc = "finished" =>
                   \A i \in DOMAIN output.rows : output.rows[i].review[1] # p

\* The task of page p is over.
PageOver(p) == pst[p] \in {"returned", "raised"}

\* C10: a 429 answer is retried: a page that was answered 429 is attempted
\* again before its task ends.
C10_RateLimitedIsRetried ==
    \A p \in Pages :
        (PageOver(p) /\ \E i \in DOMAIN statuses[p] : statuses[p][i] = 429)
            => attempts[p] >= 2

\* DATA_DIR with one more file holding a copy of file f's contents.
WithCopy(dir, f) == DictPut(dir, MaxClock + 1, dir[f])

\* C5: condense gives the same aggregate whatever the order the shards are
\* read in, when it is run again, and when a shard's contents are duplicated.
C5_CondenseOrderIndependent ==
    site_pc = "finished" =>
        /\ \A o \in GlobOrders(data_dir) : CondensedRows(data_dir, o) = output.rows
        /\ \A f \in DOMAIN data_dir :
               \A o \in GlobOrders(WithCopy(data_dir, f)) :
                   CondensedRows(WithCopy(data_dir, f), o) = output.rows

\* Case-normalised text.
LowerCase(str) ==
    CASE str \in {"Dior", "DIOR"} -> "dior"
      [] str \in {"Sauvage", "SAUVAGE"} -> "sauvage"
      [] str = "Versace" -> "versace"
      [] str = "Eros" -> "eros"
      [] OTHER -> str

\* The identity key of a record or row: (brand, name), case-normalised.
IdentityKey(rec) == <<LowerCase(rec.brand), LowerCase(rec.name)>>

\* The urls of a row's 'sources' column.
RowUrls(row) == {row.sources[k] : k \in DOMAIN row.sources} \ {","}

\* The source urls of every scraped record with the given key.
UrlsOfKey(data, key) ==
    UNION {{data[i].source_urls[k] : k \in DOMAIN data[i].source_urls} :
              i \in {j \in DOMAIN data : IdentityKey(data[j]) = key}}

\* C6: the dataset returned has one row per identity key, and the row carries
\* the source urls of every record with that key.
C6_OneRowPerIdentityKey ==
    src_pc = "returned" =>
        /\ \A i, j \in DOMAIN df : i # j => IdentityKey(df[i]) # IdentityKey(df[j])
        /\ \A i \in DOMAIN df : RowUrls(df[i]) = UrlsOfKey(all_data, IdentityKey(df[i]))

ScalarFields == {"release_year", "longevity", "sillage"}

\* The first-seen non-null value of a field among the records with the key.
FirstNonNull(data, key, fld) ==
    LET having == {i \in DOMAIN data :
                      IdentityKey(data[i]) = key /\ data[i][fld] # Null}
    IN  IF having = {} THEN Null
        ELSE data[CHOOSE i \in having : \A j \in having : i <= j][fld]

\* C7: records with the same identity key are merged 'first wins, gaps
\* filled': the key's row holds, per scalar field, the first-seen non-null value.
C7_FirstWinsGapsFilled ==
    src_pc = "returned" =>
        \A i \in DOMAIN all_data :
            \E r \in DOMAIN df :
                /\ IdentityKey(df[r]) = IdentityKey(all_data[i])
                /\ \A fld \in ScalarFields :
                       df[r][fld] = FirstNonNull(all_data, IdentityKey(all_data[i]), fld)

\* C8: a source that raises, or is unknown, stops nothing: the run is never
\* ended by it, every requested source is visited, what the other sources
\* returned is kept, and the dataset returned has a row for each record of it.
C8_SourceFailureIsolated ==
    /\ src_pc \in {"absent", "loop", "returned"}
    /\ all_data = ConcatAll(gathered)
    /\ src_pc = "returned" =>
          /\ src_idx = Len(sources) + 1
          /\ Len(src_log) + Len(gathered) = Len(sources)
          /\ Len(df) = Len(ConcatAll(gathered))
          /\ \A i \in DOMAIN df :
                 /\ df[i].name = ConcatAll(gathered)[i].name
                 /\ df[i].brand = ConcatAll(gathered)[i].brand
                 /\ RowUrls(df[i]) = {ConcatAll(gathered)[i].source_urls[k] :
                                         k \in DOMAIN ConcatAll(gathered)[i].source_urls}

\* C8's case: the first source failed, and the run returned the records of a
\* later one.
C8_Witness ==
    /\ src_pc = "returned"
    /\ src_log # <<>>
    /\ src_log[1] = <<"error", sources[1]>>
    /\ df # <<>>

\* C11: every response with a 2xx status is a success: the fetch does not fail
\* on it, and a fetch that ends well after a request has its record in
\* data_cache under the url asked for.
C11_Every2xxIsSuccess ==
    \A t \in Tasks :
        /\ fresult[t].kind = "raised" => fresult[t].status \notin 200..299
        /\ (fpc[t] = "done" /\ ~fhit[t]) =>
               /\ furl[t] \in DOMAIN data_cache
               /\ fresult[t] = Returned(data_cache[furl[t]])

\* C12: an answer whose status is neither 2xx nor 429 is a permanent failure:
\* the page is not requested again, its body is not handed to the extraction
\* of reviews, and no shard is written from it.
C12_PermanentFailureNotExtracted ==
    \A p \in Pages :
        \A i \in DOMAIN statuses[p] :
            statuses[p][i] \notin (200..299) \cup {429} =>
                /\ i = Len(statuses[p])
                /\ pst[p] \notin {"get", "parse"}
                /\ saves[p] = 0

\* C13: a problem with the configuration file is never fatal: whenever the file
\* is missing, unreadable or not valid JSON, the constructor succeeds and the
\* scraper runs with the default settings.
C13_ConfigProblemNotFatal ==
    config_file # "valid" => (ctor_error = "none" /\ config = DefaultConfig)

\* C14: a call waiting for a slot of the rate limiter holds up no other task:
\* every task that is part-way through a fetch can still take its next step.
C14_WaitSuspendsOnlyCaller ==
    \A t \in Tasks :
        fpc[t] = "sleeping" =>
            \A q \in Tasks \ {t} :
                /\ fpc[q] = "created" => ENABLED FetchBegin(q)
                /\ fpc[q] = "requesting" => ENABLED FetchStatus(q, 200)
                /\ fpc[q] = "reading" => ENABLED FetchBody(q, TRUE)

\* The task of page p was ended by an exception raised while its reviews were
\* being extracted.
ExtractionFailed(p) == pst[p] = "raised" /\ todo[p] > 0

\* C18: an error in extracting one record skips that record only: it ends
\* neither the page's task, whose other records are still processed and saved,
\* nor the run, which goes on to the other pages and to condense.
C18_ExtractionErrorSkipsRecord ==
    /\ \A p \in Pages : ~ExtractionFailed(p)
    /\ site_error = "info" => site_pc # "raised"

\* C19: extraction never raises on a page that lacks optional sections; it
\* returns a record.
C19_ExtractionToleratesMissing ==
    /\ info_soup.peoplelist => info_ret.kind # "raised"
    /\ suitability.kind # "raised"

\* The files of DATA_DIR that json.load can parse.
ReadableShards == [f \in DOMAIN data_dir \ unreadable |-> data_dir[f]]

\* C20: a shard that cannot be parsed does not stop condense: it is left out
\* and the output is made of the other shards.
C20_UnreadableShardSkipped ==
    /\ site_error # "JSONDecodeError"
    /\ site_pc = "finished" =>
           \E o \in GlobOrders(ReadableShards) :
               output.rows = CondensedRows(ReadableShards, o)

RowSet(rows) == {rows[i] : i \in DOMAIN rows}

\* The records the run has to end with: those an earlier run left in DATA_DIR,
\* and those extracted from each page's response.
RunRecords ==
    (IF 0 \in DOMAIN data_dir THEN data_dir[0] ELSE <<>>)
        \o ConcatAll([p \in Pages |-> scrape_data[p]])

\* C16: the order in which the workers' tasks complete does not change the
\* condensed dataset: with the pages' responses given, a run of the pool ends
\* with the records of those responses, each once, however it was interleaved.
C16_CompletionOrderIrrelevant ==
    (site_pc = "finished" /\ num_jobs > 1) =>
        /\ Len(output.rows) = Len(RunRecords)
        /\ RowSet(output.rows) = RowSet(RunRecords)

RECURSIVE TotalSaves(_)
\* The save_data calls made for the pages 1..n.
TotalSaves(n) == IF n = 0 THEN 0 ELSE saves[n] + TotalSaves(n - 1)

\* C17: every flush makes a new shard file, named apart from every file there
\* is: none is overwritten, the run's files are as many as its flushes, and
\* each page's batch is the contents of a file.
C17_EveryFlushNewShard ==
    /\ Cardinality(DOMAIN data_dir \ {0}) = TotalSaves(NumPages)
    /\ \A p \in Pages :
           saves[p] > 0 => \E f \in DOMAIN data_dir \ {0} : data_dir[f] = scrape_data[p]

ProxyPool ==
    IF config_file = "valid" THEN <<"proxy0", "proxy1", "proxy2">> ELSE <<>>

\* C21: proxies are handed out round-robin over the configured pool, wrapping
\* modulo its size: the i-th request of a run goes through proxy (i - 1) mod n
\* of a pool of n, and directly when the pool is empty.
C21_ProxyRoundRobin ==
    \A i \in DOMAIN proxy_log :
        proxy_log[i] = IF ProxyPool = <<>> THEN NoProxy
                       ELSE ProxyPool[((i - 1) % Len(ProxyPool)) + 1]

\* C24: the cache is looked at before the rate limiter: a call made for a url
\* that is already cached takes no slot, is not counted against the limit and
\* never waits.
C24_CacheBeforeLimiter ==
    [][\A t \in Tasks :
           (fpc[t] = "idle" /\ fpc'[t] # "idle" /\ furl'[t] \in DOMAIN data_cache) =>
               /\ call_log' = call_log
               /\ num_calls' = num_calls
               /\ fpc'[t] # "sleeping"]_vars

\* C26: data_cache changes only when a fetch that read its page after a 200
\* answer returns, and then by that fetch's url and record alone; a fetch that
\* fails, on its status or by an exception, leaves data_cache as it was.
C26_CacheHoldsOnlySuccesses ==
    [][/\ data_cache' # data_cache =>
              \E t \in Tasks :
                  /\ fpc[t] = "reading"
                  /\ fpc'[t] = "done"
                  /\ fresult'[t].kind = "returned"
                  /\ data_cache' = DictPut(data_cache, furl[t], fresult'[t].data)
       /\ \A t \in Tasks :
              (fpc[t] # "failed" /\ fpc'[t] = "failed") => data_cache' = data_cache]_vars

\* C26's case: a fetch failed by an exception after a 200 answer, and only the
\* url of another, successful fetch is cached.
C26_Witness ==
    /\ DOMAIN data_cache = {"u1"}
    /\ \E t \in Tasks : fpc[t] = "failed" /\ furl[t] = "u2" /\ fresult[t] = BodyError

\* The review blocks of page p that line 71 has counted: those appended to the
\* page's list, and the one whose parsing raised.
Processed(p) == Len(scrape_data[p]) + (IF ExtractionFailed(p) THEN 1 ELSE 0)

RECURSIVE TotalProcessed(_)
TotalProcessed(n) == IF n = 0 THEN 0 ELSE Processed(n) + TotalProcessed(n - 1)

\* C22: the counter shared by the worker threads loses no update: whenever no
\* scrape_page call is under way, review_count is the number of review blocks
\* counted so far by all the pages together.
C22_ReviewCountLosesNoUpdate ==
    InFlight = {} => review_count = TotalProcessed(NumPages)

\* C23: a retry waits before it asks again: the step that takes a page to its
\* next attempt lets time pass.
C23_RetryWaits ==
    [][\A p \in Pages : retry_count'[p] > retry_count[p] => clock' > clock]_vars

\* C27: a page whose request raised and then succeeded on a retry is a page
\* scraped: once its reviews are saved, scrape_page has returned normally and
\* the page has written exactly one shard.
C27_RetriedPageReturns ==
    \A p \in Pages :
        (/\ retry_count[p] > 0
         /\ statuses[p] = <<200>>
         /\ saves[p] > 0) => (pst[p] = "returned" /\ saves[p] = 1)
\* The steps page p can still take: its entry, one request per attempt left,
\* one step per review block left, and its save.
PageRank(p) ==
    CASE pst[p] = "pending" -> (RetryLimit + 1) + (ReviewsPerPage + 1) + 1
      [] pst[p] = "get" -> (RetryLimit + 1 - retry_count[p]) + (ReviewsPerPage + 1)
      [] pst[p] = "parse" -> todo[p] + 1
      [] OTHER -> 0

RECURSIVE TotalPageRank(_)
TotalPageRank(n) == IF n = 0 THEN 0 ELSE PageRank(n) + TotalPageRank(n - 1)

\* The steps scrape_site itself can still take.
SiteRank ==
    CASE site_pc = "start" -> 3
      [] site_pc = "scraping" -> 2
      [] site_pc = "condense" -> 1
      [] OTHER -> 0

\* A bound on the steps left in the run.
Rank == SiteRank + TotalPageRank(NumPages) + (MaxClock - clock)

\* C28: whatever the responses are, the run ends: every step uses up one of a
\* bounded number of steps left, so no page is asked for forever, and as long
\* as scrape_site has neither finished nor failed a further step can be taken.
C28_EveryTaskTerminates ==
    /\ [][Rank' < Rank /\ Rank' >= 0]_vars
    /\ [](site_pc \notin {"finished", "raised"} => ENABLED NextBn)

\* C28's case: a page whose every attempt failed has ended in failure, and the
\* run with it.
C28_Witness ==
    /\ site_pc = "raised"
    /\ \E p \in Pages :
           /\ attempts[p] = RetryLimit + 1
           /\ retry_count[p] = RetryLimit
           /\ pst[p] = "raised"
           /\ statuses[p] = <<>>
    /\ \E p \in Pages : pst[p] = "returned"
\* C25: results are saved as they come: once a source has handed over its
\* records, a file of raw_data holds them, whatever happens to the run later.
C25_SavedAsSoonAsComplete ==
    \A i \in DOMAIN gathered :
        gathered[i] # <<>> =>
            \E j \in DOMAIN raw_data : RowSet(gathered[i]) \subseteq RowSet(raw_data[j])

\* C29: the pool and the sequential loop do the same work on the same
\* responses: whichever runs, once scrape_site is over every page of the range
\* was handed to scrape_page, and a finished run asked for each page once and
\* condensed the records of the pages' responses, each once.
C29_PoolAndLoopAgree ==
    /\ site_pc \in {"finished", "raised"} => \A p \in Pages : pst[p] # "pending"
    /\ site_pc = "finished" =>
           /\ \A p \in Pages : attempts[p] = 1
           /\ Len(output.rows) = Len(RunRecords)
           /\ RowSet(output.rows) = RowSet(RunRecords)

\* The records extracted in this run.
ThisRunRecords == RowSet(ConcatAll([p \in Pages |-> scrape_data[p]]))

\* C30: with clear_old_data the earlier runs' shards are gone before any page
\* is scraped and the finished run's output holds this run's records only;
\* without it the output holds the records of every shard there is, the old
\* one included; and the earlier output file stays as it was until condense
\* rewrites it.
C30_ClearOldData ==
    /\ (clear_old_data /\ site_pc # "start") => 0 \notin DOMAIN data_dir
    /\ (clear_old_data /\ site_pc = "finished") => RowSet(output.rows) \subseteq ThisRunRecords
    /\ (~clear_old_data /\ site_pc = "finished") =>
           \A f \in DOMAIN data_dir : RowSet(data_dir[f]) \subseteq RowSet(output.rows)
    /\ site_pc # "finished" => output = PrevOutput
\* C30's case: a run told to clear has finished, and the earlier output file
\* was rewritten with the records of this run.
C30_Witness ==
    /\ clear_old_data
    /\ site_pc = "finished"
    /\ output.rows # <<>>
    /\ output # PrevOutput
====
